---------------------------- MODULE Spec2Model ----------------------------
(***************************************************************************)
(* Model of the crypto analytics pipeline: clean_crypto_data (etl),        *)
(* calculate_kpis (kpi), calculate_liquidity_concentration (analytics),    *)
(* compare_assets (comparison) and main(), which runs them in turn.        *)
(*                                                                         *)
(* Numbers.  pandas works on binary floats; the model works on exact       *)
(* decimals.  A volume is an integer count of thousandths, so that the     *)
(* code's round(x, 2) is a real conversion.  Emitted, rounded fields are   *)
(* integers too: total_volume, top5_volume and liquidity_health count      *)
(* hundredths, top5_share counts ten-thousandths.                          *)
(* A nullable number is <<>> (NaN) or <<v>>; a cell that holds text where  *)
(* a number is expected is <<0, 0>>; a missing asset is "<NA>".  A row is  *)
(* a function from the table's column names to cells.                      *)
(***************************************************************************)
EXTENDS Integers, Sequences, FiniteSets, TLC

VARIABLES
    pc,             \* position of the caller: "input", "done", or a stage of main()
    df_cols,        \* columns of the table handed to the liquidity scorer
    df_rows,        \* its rows, in table order
    liq_status,     \* "idle" | "ok" | "ValueError" | "KeyError"
    liquidity_df,   \* rows returned by calculate_liquidity_concentration
    kpi_cols,       \* columns of the KPI table handed to compare_assets
    kpi_rows,       \* its rows, one per asset, in table order
    assets,         \* the assets argument: [kind, items]
    cmp_status,     \* "idle" | "ok" | "ValueError"
    cmp_error,      \* the message of the error raised, <<>> when none
    printed,        \* what compare_assets printed, in order
    comparison_df,  \* rows returned by compare_assets
    raw_cols,       \* columns of df_raw, as spelled in the file
    raw_rows,       \* rows of df_raw
    clean_status,   \* "idle" | "ok" | "ValueError" | "KeyError"
    clean_error,    \* the message of the error raised, <<>> when none
    clean_cols,     \* columns of df_clean
    clean_rows,     \* rows of df_clean
    kpi_status,     \* "idle" | "ok" | "ValueError": the outcome of calculate_kpis
    main_out        \* what main() has printed about its stages, in order

cleanVars == <<raw_cols, raw_rows, clean_status, clean_error, clean_cols, clean_rows>>

liqVars == <<df_cols, df_rows, liq_status, liquidity_df>>

cmpVars == <<kpi_cols, kpi_rows, assets, cmp_status, cmp_error, printed, comparison_df>>

kpiVars == <<kpi_status, main_out>>

vars == <<pc, liqVars, cmpVars, cleanVars, kpiVars>>

---------------------------------------------------------------------------
(* Nullable numbers and small helpers                                      *)

NaN == <<>>

Num(v) == <<v>>

IsNa(x) == x = NaN

Text == <<0, 0>>

NoAsset == "<NA>"

Val(x) == x[1]

Min2(a, b) == IF a <= b THEN a ELSE b

RECURSIVE SumSeq(_)
SumSeq(s) ==
    IF s = <<>> THEN 0 ELSE Head(s) + SumSeq(Tail(s))

\* Series.dropna() followed by reading the values
DropNa(s) ==
    LET keep == SelectSeq(s, LAMBDA x : ~IsNa(x))
    IN  [i \in 1..Len(keep) |-> Val(keep[i])]

\* insertion of one value into a sequence already sorted descending
RECURSIVE InsertDesc(_, _)
InsertDesc(x, s) ==
    IF s = <<>> THEN <<x>>
    ELSE IF x > Head(s) THEN <<x>> \o s
    ELSE <<Head(s)>> \o InsertDesc(x, Tail(s))

\* Series.sort_values(ascending=False)
RECURSIVE SortDesc(_)
SortDesc(s) ==
    IF s = <<>> THEN <<>> ELSE InsertDesc(Head(s), SortDesc(Tail(s)))

\* Series.head(n)
HeadN(s, n) == SubSeq(s, 1, Min2(n, Len(s)))

\* round(n / d, k) for d > 0, as a count of 10^-k units when n is scaled by 10^k:
\* round half to even, which is what Python and numpy do on a tie
RoundHalfEven(n, d) ==
    LET q == n \div d
        r == n % d
    IN  IF 2 * r < d THEN q
        ELSE IF 2 * r > d THEN q + 1
        ELSE IF q % 2 = 0 THEN q ELSE q + 1

---------------------------------------------------------------------------
(* Asset identifiers.  Strings are not ordered in TLA+, so the lexical     *)
(* order pandas sorts by is given by position in this list.                *)

AssetOrder == <<"ADA", "BNB", "BTC", "DOT", "ETH", "SOL", "XRP", "ZEC">>

AssetIndex(a) == CHOOSE i \in 1..Len(AssetOrder) : AssetOrder[i] = a

Range(s) == {s[i] : i \in 1..Len(s)}

\* the distinct values of s, ascending in lexical order
SortedKeys(S) ==
    LET idx == {AssetIndex(a) : a \in S}
        nth[k \in 1..Cardinality(idx)] ==
            CHOOSE i \in idx : Cardinality({j \in idx : j < i}) = k - 1
    IN  [k \in 1..Cardinality(idx) |-> AssetOrder[nth[k]]]

---------------------------------------------------------------------------
(* calculate_liquidity_concentration                                       *)

TopN == 5

\* group["volume"] of one asset, in table order
GroupVolumes(rows, asset) ==
    LET g == SelectSeq(rows, LAMBDA r : r.asset = asset)
    IN  [i \in 1..Len(g) |-> g[i].volume]

\* the first five in table order, the sort left out
Top5Volume_NoSort(volumes) == SumSeq(HeadN(volumes, TopN))

\* volumes.sort_values(ascending=False).head(5).sum()
Top5Volume(volumes) == SumSeq(HeadN(SortDesc(volumes), TopN))

\* 0.60 itself counted as High
RiskOf_HighInclusive(top5, total) ==
    IF 100 * top5 >= 60 * total THEN "High"
    ELSE IF 100 * top5 >= 40 * total THEN "Medium"
    ELSE "Low"

\* the risk bucket of the unrounded share top5 / total (total > 0)
RiskOf(top5, total) ==
    IF 100 * top5 > 60 * total THEN "High"
    ELSE IF 100 * top5 >= 40 * total THEN "Medium"
    ELSE "Low"

\* the empty group summed instead of reported: totals of 0, no share
EmptyGroupRow_Summed(asset) ==
    [asset |-> asset, total_volume |-> Num(0), top5_volume |-> Num(0),
     top5_share |-> NaN, liquidity_health |-> NaN,
     concentration_risk |-> "Unknown"]

\* the row appended when volumes.empty
EmptyGroupRow(asset) ==
    [asset |-> asset, total_volume |-> NaN, top5_volume |-> NaN,
     top5_share |-> NaN, liquidity_health |-> NaN,
     concentration_risk |-> "Unknown"]

\* one iteration of the loop over df.groupby("asset")
GroupResult(asset, group) ==
    LET volumes == DropNa(group)
        total_volume == SumSeq(volumes)
        top5_volume == Top5Volume(volumes)
        defined == total_volume > 0
    IN  IF volumes = <<>>
        THEN EmptyGroupRow(asset)
        ELSE [asset |-> asset,
              total_volume |-> Num(RoundHalfEven(total_volume, 10)),
              top5_volume |-> Num(RoundHalfEven(top5_volume, 10)),
              top5_share |->
                  IF defined
                  THEN Num(RoundHalfEven(top5_volume * 10000, total_volume))
                  ELSE NaN,
              liquidity_health |->
                  IF defined
                  THEN Num(RoundHalfEven((total_volume - top5_volume) * 10000,
                                         total_volume))
                  ELSE NaN,
              concentration_risk |->
                  IF ~defined THEN "Unknown"
                  ELSE RiskOf(top5_volume, total_volume)]

\* method="min": one more than the number of rows with a greater health
DenseRank_Min(health, x) ==
    IF IsNa(x) THEN NaN
    ELSE Num(1 + Cardinality({i \in 1..Len(health) :
                                  ~IsNa(health[i]) /\ Val(health[i]) > Val(x)}))

\* Series.rank(ascending=False, method="dense").astype("Int64")
DenseRank(health, x) ==
    IF IsNa(x) THEN NaN
    ELSE Num(1 + Cardinality({Val(h) : h \in {g \in Range(health) :
                                  ~IsNa(g) /\ Val(g) > Val(x)}}))

WithRank(results) ==
    LET health == [i \in 1..Len(results) |-> results[i].liquidity_health]
    IN  [i \in 1..Len(results) |->
            [asset |-> results[i].asset,
             total_volume |-> results[i].total_volume,
             top5_volume |-> results[i].top5_volume,
             top5_share |-> results[i].top5_share,
             liquidity_health |-> results[i].liquidity_health,
             concentration_risk |-> results[i].concentration_risk,
             liquidity_rank |-> DenseRank(health, results[i].liquidity_health)]]

calculate_liquidity_concentration(cols, rows) ==
    IF ~({"asset", "volume"} \subseteq cols)
    THEN [status |-> "ValueError", df |-> <<>>]
    ELSE LET keys == SortedKeys({rows[i].asset : i \in 1..Len(rows)} \ {NoAsset})
             results == [k \in 1..Len(keys) |->
                            GroupResult(keys[k], GroupVolumes(rows, keys[k]))]
         IN  IF results = <<>>
             THEN [status |-> "KeyError", df |-> <<>>]
             ELSE [status |-> "ok", df |-> WithRank(results)]

ObsCols == {"asset", "timestamp", "price", "volume"}

\* nothing passed to the scorer yet
LiqIdle ==
    /\ df_cols = ObsCols
    /\ df_rows = <<>>
    /\ liq_status = "idle"
    /\ liquidity_df = <<>>

---------------------------------------------------------------------------
(* clean_crypto_data                                                       *)

\* the spellings of column names met in files
RawNames == {" Asset ", "Symbol", "Timestamp", "price", "Volume", "market_cap"}

\* str.lower().str.strip() on one column name
Normalize(c) ==
    CASE c = " Asset " -> "asset"
      [] c = "Symbol" -> "symbol"
      [] c = "Timestamp" -> "timestamp"
      [] c = "Volume" -> "volume"
      [] OTHER -> c

\* the name normalised only: symbol is never renamed to asset
CleanName_NoRename(cols, c) == Normalize(c)

\* the name a column has after lines 21-25: normalised, symbol renamed to asset
\* when the table has no asset column
CleanName(cols, c) ==
    IF Normalize(c) = "symbol" /\ "asset" \notin {Normalize(d) : d \in cols}
    THEN "asset"
    ELSE Normalize(c)

RequiredCols == <<"asset", "timestamp", "price", "volume">>

\* pd.to_numeric / pd.to_datetime with errors="coerce"
Coerce(x) == IF Len(x) = 1 THEN x ELSE NaN

\* the row under its cleaned column names, timestamp and numeric columns coerced
CoerceRow(cols, r) ==
    LET names == {CleanName(cols, c) : c \in cols}
        from(n) == CHOOSE c \in cols : CleanName(cols, c) = n
    IN  [n \in names |-> IF n \in {"timestamp", "price", "volume", "market_cap"}
                         THEN Coerce(r[from(n)])
                         ELSE r[from(n)]]

\* df.dropna(subset=required_cols) and the df[df[col] >= 0] filters
KeepRow(r) ==
    /\ r.asset # NoAsset
    /\ ~IsNa(r.timestamp) /\ ~IsNa(r.price) /\ ~IsNa(r.volume)
    /\ Val(r.price) >= 0
    /\ Val(r.volume) >= 0
    /\ "market_cap" \in DOMAIN r => (~IsNa(r.market_cap) /\ Val(r.market_cap) >= 0)

\* df.drop_duplicates(subset=["asset", "timestamp"]): the first of each pair stays
DropDuplicates(rows) ==
    LET first == {i \in 1..Len(rows) :
                     \A j \in 1..(i - 1) :
                         ~(rows[j].asset = rows[i].asset
                             /\ rows[j].timestamp = rows[i].timestamp)}
        nth[k \in 1..Cardinality(first)] ==
            CHOOSE i \in first : Cardinality({j \in first : j < i}) = k - 1
    IN  [k \in 1..Cardinality(first) |-> rows[nth[k]]]

RowBefore(a, b) ==
    \/ AssetIndex(a.asset) < AssetIndex(b.asset)
    \/ a.asset = b.asset /\ Val(a.timestamp) < Val(b.timestamp)

RECURSIVE InsertRow(_, _)
InsertRow(r, s) ==
    IF s = <<>> THEN <<r>>
    ELSE IF RowBefore(r, Head(s)) THEN <<r>> \o s
    ELSE <<Head(s)>> \o InsertRow(r, Tail(s))

\* df.sort_values(by=["asset", "timestamp"]).reset_index(drop=True)
RECURSIVE SortRows(_)
SortRows(s) ==
    IF s = <<>> THEN <<>> ELSE InsertRow(Head(s), SortRows(Tail(s)))

clean_crypto_data(cols, rows) ==
    LET names == {CleanName(cols, c) : c \in cols}
        missing == SelectSeq(RequiredCols, LAMBDA c : c \notin names)
        coerced == [i \in 1..Len(rows) |-> CoerceRow(cols, rows[i])]
        kept == SelectSeq(coerced, KeepRow)
    IN  IF missing # <<>>
        THEN [status |-> "ValueError",
              error |-> <<"Missing required column", Head(missing)>>,
              cols |-> {}, rows |-> <<>>]
        ELSE [status |-> "ok", error |-> <<>>, cols |-> names,
              rows |-> SortRows(DropDuplicates(kept))]

\* nothing cleaned yet
CleanIdle ==
    /\ raw_rows = <<>>
    /\ clean_status = "idle"
    /\ clean_error = <<>>
    /\ clean_cols = {}
    /\ clean_rows = <<>>

\* no KPI computed, nothing printed yet
KpiIdle ==
    /\ kpi_status = "idle"
    /\ main_out = <<>>

---------------------------------------------------------------------------
(* compare_assets.  A KPI value is a nullable count of ten-thousandths; a  *)
(* formatted cell is <<kind, hundredths>> or "N/A".                        *)

RequiredKpiCols ==
    <<"asset", "momentum", "liquidity_proxy", "volume_trend", "downside_risk">>

MaxCompare == 5

MinCompare == 2

NoneArg == [kind |-> "none", items |-> <<>>]

\* kpi_df['asset'].unique(): the distinct assets in order of first appearance
UniqueAssets(rows) ==
    LET col == [i \in 1..Len(rows) |-> rows[i].asset]
        first == {i \in 1..Len(col) : \A j \in 1..(i - 1) : col[j] # col[i]}
        nth[k \in 1..Cardinality(first)] ==
            CHOOSE i \in first : Cardinality({j \in first : j < i}) = k - 1
    IN  [k \in 1..Cardinality(first) |-> col[nth[k]]]

\* the existence filter applied to the whole list, the cut to 5 after it
SelectedFromList_FilterFirst(items, available) ==
    HeadN(SelectSeq(items, LAMBDA a : a \in Range(available)), MaxCompare)

\* assets = assets[:5], then the loop that keeps the assets found in the data
SelectedFromList(items, available) ==
    SelectSeq(HeadN(items, MaxCompare), LAMBDA a : a \in Range(available))

InvalidFromList(items, available) ==
    SelectSeq(HeadN(items, MaxCompare), LAMBDA a : a \notin Range(available))

\* insertion of one row into a sequence already sorted by asset
RECURSIVE InsertByAsset(_, _)
InsertByAsset(r, s) ==
    IF s = <<>> THEN <<r>>
    ELSE IF AssetIndex(r.asset) < AssetIndex(Head(s).asset) THEN <<r>> \o s
    ELSE <<Head(s)>> \o InsertByAsset(r, Tail(s))

\* comparison_df.sort_values('asset')
RECURSIVE SortByAsset(_)
SortByAsset(s) ==
    IF s = <<>> THEN <<>> ELSE InsertByAsset(Head(s), SortByAsset(Tail(s)))

\* f"{x:.2f}%" and f"{x:,.2f}", "N/A" for a missing value
Format2(kind, x) ==
    IF IsNa(x) THEN "N/A" ELSE <<kind, RoundHalfEven(Val(x), 100)>>

FormatRow(r) ==
    [Asset |-> r.asset,
     Momentum |-> Format2("pct", r.momentum),
     LiquidityProxy |-> Format2("num", r.liquidity_proxy),
     VolumeTrend |-> Format2("pct", r.volume_trend),
     DownsideRisk |-> Format2("pct", r.downside_risk)]

Raised(message, prints) ==
    [status |-> "ValueError", error |-> message, printed |-> prints, df |-> <<>>]

\* lines 80-136: filter, sort by asset, rank columns cast to int, format
FilterSortFormat(rows, selected, prints) ==
    LET filtered == SelectSeq(rows, LAMBDA r : r.asset \in Range(selected))
        sorted == SortByAsset(filtered)
        ranked == <<"momentum", "liquidity_proxy", "volume_trend", "downside_risk">>
    IN  IF \E i \in 1..Len(sorted), c \in 1..Len(ranked) : IsNa(sorted[i][ranked[c]])
        THEN Raised(<<"Cannot convert non-finite values (NA or inf) to integer">>,
                    prints)
        ELSE [status |-> "ok", error |-> <<>>, printed |-> prints,
              df |-> [i \in 1..Len(sorted) |-> FormatRow(sorted[i])]]

compare_assets(cols, rows, arg) ==
    LET missing_cols == SelectSeq(RequiredKpiCols, LAMBDA c : c \notin cols)
        available == UniqueAssets(rows)
        selected == SelectedFromList(arg.items, available)
        invalid == InvalidFromList(arg.items, available)
        cut == IF Len(arg.items) > MaxCompare
               THEN <<<<"Warning: More than 5 assets provided, using first 5",
                        Len(arg.items)>>>>
               ELSE <<>>
        skipped == IF invalid # <<>>
                   THEN <<<<"Warning: assets not found and will be skipped", invalid>>>>
                   ELSE <<>>
    IN  IF missing_cols # <<>>
        THEN Raised(<<"Missing required columns in KPI DataFrame", missing_cols>>, <<>>)
        ELSE IF arg.kind = "none"
        THEN FilterSortFormat(
                 rows,
                 HeadN([i \in 1..Len(rows) |-> rows[i].asset], MaxCompare),
                 IF Len(rows) > MaxCompare
                 THEN <<<<"Note: Comparing first 5 assets", Len(rows)>>>>
                 ELSE <<>>)
        ELSE IF arg.kind # "list"
        THEN Raised(<<"assets parameter must be a list of asset names or None">>, <<>>)
        ELSE IF Len(arg.items) < MinCompare
        THEN Raised(<<"Must compare at least 2 assets">>, <<>>)
        ELSE IF Len(selected) < MinCompare
        THEN Raised(<<"Not enough valid assets to compare", Len(selected), available>>,
                    cut \o skipped)
        ELSE FilterSortFormat(rows, selected, cut \o skipped)

---------------------------------------------------------------------------
(* KPI tables and asset lists handed to compare_assets when it is called   *)
(* on its own.                                                             *)

MaxKpiRows == 6
MaxList == 6
MaxVaried == 3
MaxShortList == 2

KpiCols == Range(RequiredKpiCols)

KpiAssets == {"ADA", "BNB", "BTC", "DOT", "ETH", "SOL", "XRP"}
VariedAssets == {"ADA", "BNB", "BTC"}
ListAssets == {"ADA", "BNB", "ZEC"}

PlainKpi ==
    [momentum |-> Num(100000), liquidity_proxy |-> Num(500000),
     volume_trend |-> Num(50000), downside_risk |-> Num(200000),
     top5_share |-> Num(5000)]

KpiProfiles ==
    {PlainKpi,
     [momentum |-> Num(255061), liquidity_proxy |-> Num(12345678),
      volume_trend |-> Num(-33333), downside_risk |-> Num(0),
      top5_share |-> Num(8750)],
     [momentum |-> NaN, liquidity_proxy |-> Num(500000),
      volume_trend |-> NaN, downside_risk |-> Num(200000),
      top5_share |-> NaN]}

\* a row of the KPI table: a cell for every column of the table
KpiRow(cols, a, k) ==
    [c \in cols |-> IF c = "asset" THEN a ELSE k[c]]

OneRowPerAsset(rows) ==
    \A i, j \in 1..Len(rows) : rows[i].asset = rows[j].asset => i = j

IsPlain(rows) ==
    \A i \in 1..Len(rows) : \A c \in DOMAIN rows[i] \ {"asset"} : rows[i][c] = PlainKpi[c]

SortedByAsset(rows) ==
    \A i \in 1..(Len(rows) - 1) : AssetIndex(rows[i].asset) < AssetIndex(rows[i + 1].asset)

AssetsIn(rows, A) == \A i \in 1..Len(rows) : rows[i].asset \in A

CmpInput(rows, arg) ==
    /\ OneRowPerAsset(rows)
    /\ \/ /\ Len(rows) <= MaxKpiRows /\ IsPlain(rows) /\ AssetsIn(rows, KpiAssets)
          /\ arg = NoneArg
       \/ /\ IsPlain(rows) /\ AssetsIn(rows, ListAssets) /\ SortedByAsset(rows)
          /\ arg.kind = "list" /\ Len(arg.items) <= MaxList
       \/ /\ Len(rows) <= MaxVaried /\ AssetsIn(rows, VariedAssets)
          /\ Len(arg.items) <= MaxShortList

CmpIdle ==
    /\ kpi_rows = <<>>
    /\ assets = NoneArg
    /\ cmp_status = "idle"
    /\ cmp_error = <<>>
    /\ printed = <<>>
    /\ comparison_df = <<>>

CmpInit ==
    /\ pc = "input"
    /\ kpi_cols \in {KpiCols, KpiCols \cup {"top5_share"}}
    /\ CmpIdle
    /\ LiqIdle
    /\ raw_cols = ObsCols
    /\ CleanIdle
    /\ KpiIdle

\* the caller appends one KPI record to the table it is about to pass
CmpAddRow ==
    /\ pc = "input"
    /\ \E a \in KpiAssets, k \in KpiProfiles :
          LET rows == Append(kpi_rows, KpiRow(kpi_cols, a, k))
          IN  CmpInput(rows, assets) /\ kpi_rows' = rows
    /\ UNCHANGED <<kpiVars, pc, liqVars, cleanVars, kpi_cols, assets, cmp_status, cmp_error,
                   printed, comparison_df>>

\* the caller passes a list, or something that is not a list, instead of None
CmpPassSequence ==
    /\ pc = "input"
    /\ assets = NoneArg
    /\ \E kind \in {"list", "tuple"} :
          LET arg == [kind |-> kind, items |-> <<>>]
          IN  CmpInput(kpi_rows, arg) /\ assets' = arg
    /\ UNCHANGED <<kpiVars, pc, liqVars, cleanVars, kpi_cols, kpi_rows, cmp_status, cmp_error,
                   printed, comparison_df>>

\* the caller appends one name to the sequence it is about to pass
CmpAddAsset ==
    /\ pc = "input"
    /\ assets.kind # "none"
    /\ \E a \in ListAssets :
          LET arg == [assets EXCEPT !.items = Append(@, a)]
          IN  CmpInput(kpi_rows, arg) /\ assets' = arg
    /\ UNCHANGED <<kpiVars, pc, liqVars, cleanVars, kpi_cols, kpi_rows, cmp_status, cmp_error,
                   printed, comparison_df>>

\* comparison_df = compare_assets(kpi_df, assets)
CmpCall ==
    /\ pc = "input"
    /\ LET res == compare_assets(kpi_cols, kpi_rows, assets)
       IN  /\ cmp_status' = res.status
           /\ cmp_error' = res.error
           /\ printed' = res.printed
           /\ comparison_df' = res.df
    /\ pc' = "done"
    /\ UNCHANGED <<kpiVars, liqVars, cleanVars, kpi_cols, kpi_rows, assets>>

CmpNext == CmpAddRow \/ CmpPassSequence \/ CmpAddAsset \/ CmpCall

SpecCmp == CmpInit /\ [][CmpNext]_vars

---------------------------------------------------------------------------
(* Tables handed to the scorer when it is called on its own.              *)

MaxInterleaved == 4
MaxUnsorted == 7
MaxGrouped == 9
MaxLong == 13

InterleavedAssets == {"ADA", "BTC", "ETH"}
InterleavedVolumes == {NaN, Num(0), Num(1005)}
UnsortedVolumes == {Num(5000), Num(10000), Num(20000), Num(30000)}
GroupedVolumes == {Num(-4000), Num(1000)}
LongVolumes == {Num(4999), Num(5000), Num(6000), Num(6001), Num(6400)}

ObsRow(a, t, p, v) == [asset |-> a, timestamp |-> t, price |-> p, volume |-> v]

\* rows ordered by asset, then by volume ascending
IsGrouped(rows) ==
    \A i \in 1..(Len(rows) - 1) :
        \/ AssetIndex(rows[i].asset) < AssetIndex(rows[i + 1].asset)
        \/ /\ rows[i].asset = rows[i + 1].asset
           /\ Val(rows[i].volume) <= Val(rows[i + 1].volume)

AllRows(rows, A, V) ==
    \A i \in 1..Len(rows) : rows[i].asset \in A /\ rows[i].volume \in V

LiqInput(rows) ==
    \/ Len(rows) <= MaxInterleaved
         /\ AllRows(rows, InterleavedAssets, InterleavedVolumes)
    \/ Len(rows) <= MaxUnsorted /\ AllRows(rows, {"BTC"}, UnsortedVolumes)
    \/ Len(rows) <= MaxGrouped
         /\ AllRows(rows, InterleavedAssets, GroupedVolumes) /\ IsGrouped(rows)
    \/ Len(rows) <= MaxLong
         /\ AllRows(rows, {"BTC"}, LongVolumes) /\ IsGrouped(rows)

LiqVolumes ==
    InterleavedVolumes \cup UnsortedVolumes \cup GroupedVolumes \cup LongVolumes

LiqInit ==
    /\ pc = "input"
    /\ LiqIdle
    /\ kpi_cols = KpiCols
    /\ CmpIdle
    /\ raw_cols = ObsCols
    /\ CleanIdle
    /\ KpiIdle

\* the caller appends one observation to the table it is about to pass
LiqAddRow ==
    /\ pc = "input"
    /\ \E a \in InterleavedAssets, v \in LiqVolumes :
          LET rows == Append(df_rows, ObsRow(a, Num(Len(df_rows) + 1), Num(1000), v))
          IN  LiqInput(rows) /\ df_rows' = rows
    /\ UNCHANGED <<kpiVars, pc, df_cols, liq_status, liquidity_df, cmpVars, cleanVars>>

\* liquidity_df = calculate_liquidity_concentration(df)
LiqCall ==
    /\ pc = "input"
    /\ LET res == calculate_liquidity_concentration(df_cols, df_rows)
       IN  liq_status' = res.status /\ liquidity_df' = res.df
    /\ pc' = "done"
    /\ UNCHANGED <<kpiVars, df_cols, df_rows, cmpVars, cleanVars>>

LiqNext == LiqAddRow \/ LiqCall

SpecLiq == LiqInit /\ [][LiqNext]_vars

---------------------------------------------------------------------------
(* Each stage called on a table whose columns are any subset of the names  *)
(* it may meet.                                                            *)

\* a cell for every column of cols: asset a, timestamp t, price p, volume v,
\* market cap m
CellRow(cols, a, t, p, v, m) ==
    [c \in cols |->
        CASE c \in {"asset", " Asset ", "Symbol"} -> a
          [] c \in {"timestamp", "Timestamp", "snapshot_time"} -> t
          [] c = "price" -> p
          [] c \in {"volume", "Volume"} -> v
          [] OTHER -> m]

SchemaRows(cols) ==
    <<CellRow(cols, "ETH", Num(2), Num(2000), Num(3000), Num(7000)),
      CellRow(cols, "BTC", Num(1), Num(1000), Num(1005), Num(-5000)),
      CellRow(cols, "ETH", Num(1), Text, Num(2000), Num(7000)),
      CellRow(cols, NoAsset, Num(1), Num(1000), Num(2000), Num(7000)),
      CellRow(cols, "ETH", Num(2), Num(1000), Num(500), Num(7000))>>

SchemaKpiRows(cols) ==
    <<KpiRow(cols \cup {"asset"}, "BTC", PlainKpi),
      KpiRow(cols \cup {"asset"}, "ADA", PlainKpi)>>

SchemaInit ==
    /\ pc = "input"
    /\ liq_status = "idle" /\ liquidity_df = <<>>
    /\ assets = NoneArg /\ cmp_status = "idle" /\ cmp_error = <<>>
    /\ printed = <<>> /\ comparison_df = <<>>
    /\ clean_status = "idle" /\ clean_error = <<>>
    /\ clean_cols = {} /\ clean_rows = <<>>
    /\ KpiIdle
    /\ \/ /\ raw_cols \in SUBSET RawNames
          /\ df_cols = ObsCols /\ kpi_cols = KpiCols
       \/ /\ df_cols \in SUBSET ObsCols
          /\ raw_cols = RawNames /\ kpi_cols = KpiCols
       \/ /\ kpi_cols \in SUBSET (KpiCols \cup {"top5_share"})
          /\ raw_cols = RawNames /\ df_cols = ObsCols
    /\ raw_rows = SchemaRows(raw_cols)
    /\ df_rows = SchemaRows(df_cols)
    /\ kpi_rows = SchemaKpiRows(kpi_cols)

\* df_clean = clean_crypto_data(df_raw)
CleanCall ==
    /\ pc = "input"
    /\ LET res == clean_crypto_data(raw_cols, raw_rows)
       IN  /\ clean_status' = res.status
           /\ clean_error' = res.error
           /\ clean_cols' = res.cols
           /\ clean_rows' = res.rows
    /\ pc' = "done"
    /\ UNCHANGED <<kpiVars, raw_cols, raw_rows, liqVars, cmpVars>>

SchemaNext == CleanCall \/ LiqCall \/ CmpCall

SpecSchema == SchemaInit /\ [][SchemaNext]_vars

---------------------------------------------------------------------------
(* calculate_kpis, the KPI stage main() calls.  One record per asset, in   *)
(* order of first appearance: momentum, liquidity_proxy, volume_trend and  *)
(* downside_risk, each a nullable count of ten-thousandths (the stage      *)
(* rounds to 4 decimals).  A price is a count of thousandths, as a volume. *)

\* the columns the KPI stage requires of its input
KpiRequired == {"asset", "price", "volume"}

\* a is ordered before b by timestamp; a missing timestamp goes last
TimeBefore(a, b) ==
    /\ ~IsNa(a.timestamp)
    /\ IsNa(b.timestamp) \/ Val(a.timestamp) < Val(b.timestamp)

\* insertion of r, which precedes every row of s in the table, into s sorted by
\* timestamp: rows of equal timestamp keep their table order
RECURSIVE InsertByTime(_, _)
InsertByTime(r, s) ==
    IF s = <<>> THEN <<r>>
    ELSE IF ~TimeBefore(Head(s), r) THEN <<r>> \o s
    ELSE <<Head(s)>> \o InsertByTime(r, Tail(s))

RECURSIVE SortByTime(_)
SortByTime(s) ==
    IF s = <<>> THEN <<>> ELSE InsertByTime(Head(s), SortByTime(Tail(s)))

\* the group in table order: the timestamp is never used
AssetGroup_TableOrder(cols, rows, asset) ==
    SelectSeq(rows, LAMBDA r : r.asset = asset)

\* the observations of one asset, ordered by timestamp ascending when the table
\* has a timestamp column
AssetGroup(cols, rows, asset) ==
    LET g == SelectSeq(rows, LAMBDA r : r.asset = asset)
    IN  IF "timestamp" \in cols THEN SortByTime(g) ELSE g

\* round(n * 10^6 / d, 0) for d > 0, the division done in two steps of 10^3 so
\* that no intermediate value leaves the integers TLC has
RoundMillionth(n, d) ==
    LET a == n * 1000
        qa == a \div d
        ra == a % d
    IN  qa * 1000 + RoundHalfEven(ra * 1000, d)

\* round((last - first) / first * 100, 4) when first > 0, null otherwise; a
\* missing last value gives a missing result
PctChange(first, last) ==
    IF IsNa(first) \/ Val(first) <= 0 \/ IsNa(last) THEN NaN
    ELSE Num(RoundMillionth(Val(last) - Val(first), Val(first)))

\* first-vs-last change of one column over a group; null under 2 observations
FirstVsLast(g, col) ==
    IF Len(g) < 2 THEN NaN ELSE PctChange(g[1][col], g[Len(g)][col])

\* price x volume of one observation as <<h, l>>: h ten-thousandths and l
\* millionths, 0 <= l < 100; <<>> when either factor is missing
Notional(r) ==
    IF IsNa(r.price) \/ IsNa(r.volume) THEN <<>>
    ELSE LET p1 == Val(r.price) \div 100
             p0 == Val(r.price) % 100
             v == Val(r.volume)
         IN  <<p1 * v + (p0 * v) \div 100, (p0 * v) % 100>>

RollingWindow == 3

\* the trailing window that ends at position i: the notionals present in it
WindowAt(g, i) ==
    LET w == Min2(RollingWindow, Len(g))
        lo == IF i - w + 1 < 1 THEN 1 ELSE i - w + 1
    IN  SelectSeq([k \in 1..(i - lo + 1) |-> Notional(g[lo + k - 1])],
                  LAMBDA x : x # <<>>)

\* mean over the group of the rolling mean (window min(3, size), at least one
\* value) of price x volume, rounded to 4 decimals; null when no window holds
\* a value.  A window of c values contributes its sum times 6 / c, so that
\* the whole is a count of sixths.
LiquidityProxy(g) ==
    LET filled == {i \in 1..Len(g) : WindowAt(g, i) # <<>>}
        k == Cardinality(filled)
        part(i, f) ==
            LET w == WindowAt(g, i)
            IN  SumSeq([j \in 1..Len(w) |-> w[j][f]]) * (6 \div Len(w))
        sixths[f \in {1, 2}] ==
            SumSeq([i \in 1..Len(g) |-> IF i \in filled THEN part(i, f) ELSE 0])
        a == sixths[1] \div (6 * k)
        b == sixths[1] % (6 * k)
    IN  IF k = 0 THEN NaN
        ELSE Num(a + RoundHalfEven(100 * b + sixths[2], 600 * k))

\* the period-over-period return from prev to cur is a negative number
IsNegativeReturn(prev, cur) ==
    /\ ~IsNa(prev) /\ ~IsNa(cur)
    /\ \/ Val(prev) > 0 /\ Val(cur) < Val(prev)
       \/ Val(prev) < 0 /\ Val(cur) > Val(prev)

NegativeReturns(g) ==
    {i \in 2..Len(g) : IsNegativeReturn(g[i - 1].price, g[i].price)}

\* downside_risk: the sample standard deviation of the negative returns, x 100.
\* It is 0.0 without a negative return; the deviation of one return alone is
\* not defined, and that of several is zero or more.  The square root is not
\* computed: the values the stage can give stand for it.
DownsideOutcomes(g) ==
    CASE Cardinality(NegativeReturns(g)) = 0 -> {Num(0)}
      [] Cardinality(NegativeReturns(g)) = 1 -> {NaN, Num(0)}
      [] OTHER -> {Num(0), Num(47140)}

\* the downside_risk of every asset of the table, one choice for each
RiskChoices(cols, rows) ==
    IF ~(KpiRequired \subseteq cols) THEN {<<>>}
    ELSE LET keys == UniqueAssets(rows)
         IN  {f \in [Range(keys) -> {NaN, Num(0), Num(47140)}] :
                 \A a \in Range(keys) : f[a] \in DownsideOutcomes(AssetGroup(cols, rows, a))}

KpiRecord(cols, rows, asset, risk) ==
    LET g == AssetGroup(cols, rows, asset)
    IN  [asset |-> asset,
         momentum |-> FirstVsLast(g, "price"),
         liquidity_proxy |-> LiquidityProxy(g),
         volume_trend |-> FirstVsLast(g, "volume"),
         downside_risk |-> risk[asset]]

\* kpi_df = calculate_kpis(df): a validation error without the required columns
calculate_kpis(cols, rows, risk) ==
    LET keys == UniqueAssets(rows)
    IN  IF ~(KpiRequired \subseteq cols)
        THEN [status |-> "ValueError", cols |-> {}, rows |-> <<>>]
        ELSE [status |-> "ok", cols |-> Range(RequiredKpiCols),
              rows |-> [k \in 1..Len(keys) |-> KpiRecord(cols, rows, keys[k], risk)]]

---------------------------------------------------------------------------
(* Tables handed to the KPI stage when it is called on its own.            *)

MaxSeries == 3
MaxMixed == 3
MaxBaseline == 2

KpiColSets ==
    {ObsCols, {"asset", "price", "volume"}, {"asset", "price"}}

SeriesTimes == {Num(1), Num(2), Num(3)}

\* price and volume of one observation
SeriesQuotes ==
    {<<Num(10000), Num(100000)>>, <<Num(12000), Num(200000)>>, <<Num(9000), Num(50000)>>}

\* quotes with a zero price or a zero volume to start from
BaselineQuotes ==
    {<<Num(10000), Num(100000)>>, <<Num(0), Num(100000)>>, <<Num(12000), Num(0)>>}

MixedAssets == {"ETH", "BTC"}
MixedTimes == {Num(1), Num(2)}
MixedQuotes == {<<Num(10000), Num(100000)>>, <<Num(9000), Num(50000)>>}

\* every row has its asset in A, its timestamp in T and its quote in Q
RowsFrom(cols, rows, A, T, Q) ==
    \A i \in 1..Len(rows) :
        /\ rows[i].asset \in A
        /\ "timestamp" \in cols => rows[i].timestamp \in T
        /\ \E q \in Q :
              /\ rows[i].price = q[1]
              /\ "volume" \in cols => rows[i].volume = q[2]

KpiInput(cols, rows) ==
    \/ Len(rows) <= MaxSeries /\ RowsFrom(cols, rows, {"BTC"}, SeriesTimes, SeriesQuotes)
    \/ Len(rows) <= MaxMixed /\ RowsFrom(cols, rows, MixedAssets, MixedTimes, MixedQuotes)
    \/ Len(rows) <= MaxBaseline
         /\ RowsFrom(cols, rows, {"BTC"}, MixedTimes, BaselineQuotes)

KpiInit ==
    /\ pc = "input"
    /\ clean_cols \in KpiColSets
    /\ clean_rows = <<>>
    /\ clean_status = "idle" /\ clean_error = <<>>
    /\ raw_cols = ObsCols /\ raw_rows = <<>>
    /\ LiqIdle
    /\ kpi_cols = {}
    /\ CmpIdle
    /\ KpiIdle

\* the caller appends one observation to the table it is about to pass
KpiAddRow ==
    /\ pc = "input"
    /\ \E a \in MixedAssets, t \in SeriesTimes, q \in SeriesQuotes \cup BaselineQuotes :
          LET rows == Append(clean_rows, CellRow(clean_cols, a, t, q[1], q[2], NaN))
          IN  KpiInput(clean_cols, rows) /\ clean_rows' = rows
    /\ UNCHANGED <<pc, raw_cols, raw_rows, clean_status, clean_error, clean_cols,
                   liqVars, cmpVars, kpiVars>>

\* kpi_df = calculate_kpis(df)
KpiCall ==
    /\ pc = "input"
    /\ \E risk \in RiskChoices(clean_cols, clean_rows) :
          LET res == calculate_kpis(clean_cols, clean_rows, risk)
          IN  /\ kpi_status' = res.status
              /\ kpi_cols' = res.cols
              /\ kpi_rows' = res.rows
    /\ pc' = "done"
    /\ UNCHANGED <<cleanVars, liqVars, assets, cmp_status, cmp_error, printed,
                   comparison_df, main_out>>

KpiNext == KpiAddRow \/ KpiCall

SpecKpi == KpiInit /\ [][KpiNext]_vars

---------------------------------------------------------------------------
(* main(): load, prepare, KPI stage, liquidity concentration with merge,   *)
(* comparison.  pc is the step main() is about to run; "failed" is a       *)
(* return from an except block, "done" the end of main().  main_out holds  *)
(* one entry <<stage, "ok" | "error">> for each stage main() has run, from *)
(* the line it prints when the stage ends, and <<"complete", "ok">> for    *)
(* the final message.                                                      *)

MaxRawLong == 6
MaxRawShort == 2
MaxRawPaired == 4

SnapshotCols == {"asset", "snapshot_time", "price", "volume"}

MainColSets ==
    {ObsCols,
     SnapshotCols,
     {"Symbol", "Timestamp", "price", "Volume"},
     {"asset", "price", "volume"},
     {"snapshot_time", "price", "volume"},
     {"asset", "snapshot_time", "price"}}

MainAssets == {"BTC", "ETH"}
MainTimes == {Num(1), Num(2)}
MainPrices == {Num(1000), Num(-1000)}
ShortVolumes == {Num(1000), NaN}
SignedVolumes == {Num(1000), Num(-4000)}
PairedPrices == {Num(1000), Num(1200)}

\* the contents of data/crypto_data.csv
MainInput(cols, rows) ==
    \/ /\ Len(rows) <= MaxRawShort
       /\ \A i \in 1..Len(rows) :
             \E a \in MainAssets, t \in MainTimes, p \in MainPrices, v \in ShortVolumes :
                 rows[i] = CellRow(cols, a, t, p, v, NaN)
    \/ /\ Len(rows) <= MaxRawLong
       /\ \A i \in 1..Len(rows) :
             \E v \in SignedVolumes :
                 rows[i] = CellRow(cols, "BTC", Num(i), Num(1000), v, NaN)
    \/ /\ Len(rows) <= MaxRawPaired
       /\ \A i \in 1..Len(rows) :
             \E a \in MainAssets, p \in PairedPrices :
                 rows[i] = CellRow(cols, a, Num(i), p, Num(1000), NaN)

MainInit ==
    /\ pc = "input"
    /\ raw_cols \in MainColSets
    /\ CleanIdle
    /\ LiqIdle
    /\ kpi_cols = KpiCols
    /\ CmpIdle
    /\ KpiIdle

\* one more line in the file main() is going to read
MainAddRow ==
    /\ pc = "input"
    /\ \E a \in MainAssets, t \in MainTimes \cup {Num(Len(raw_rows) + 1)},
          p \in MainPrices \cup PairedPrices, v \in ShortVolumes \cup SignedVolumes :
          LET rows == Append(raw_rows, CellRow(raw_cols, a, t, p, v, NaN))
          IN  MainInput(raw_cols, rows) /\ raw_rows' = rows
    /\ UNCHANGED <<kpiVars, pc, raw_cols, clean_status, clean_error, clean_cols, clean_rows,
                   liqVars, cmpVars>>

\* every except block of main() ends in return: the next step is taken only
\* when the stage raised nothing
AfterStage_NoReturn(ok, next) == next

AfterStage(ok, next) == IF ok THEN next ELSE "failed"

\* the line main() prints when a stage ends
StageLine(stage, ok) == <<stage, IF ok THEN "ok" ELSE "error">>

\* Step 1: pd.read_csv succeeded
MainLoad ==
    /\ pc = "input"
    /\ main_out' = Append(main_out, StageLine("load", TRUE))
    /\ pc' = AfterStage(TRUE, "prepare")
    /\ UNCHANGED <<cleanVars, liqVars, cmpVars, kpi_status>>

\* Step 1: FileNotFoundError, or another exception while reading
MainLoadFails ==
    /\ pc = "input"
    /\ raw_rows = <<>>
    /\ main_out' = Append(main_out, StageLine("load", FALSE))
    /\ pc' = AfterStage(FALSE, "prepare")
    /\ UNCHANGED <<cleanVars, liqVars, cmpVars, kpi_status>>

\* the snapshot branch of step 2: a copy with timestamp made of snapshot_time;
\* df_clean['asset'] raises KeyError when there is no asset column
PrepareSnapshot(cols, rows) ==
    IF "asset" \notin cols
    THEN [status |-> "KeyError", error |-> <<"asset">>, cols |-> {}, rows |-> <<>>]
    ELSE [status |-> "ok", error |-> <<>>,
          cols |-> cols \cup {"timestamp"},
          rows |-> [i \in 1..Len(rows) |->
                       [c \in cols \cup {"timestamp"} |->
                           IF c = "timestamp" THEN Coerce(rows[i].snapshot_time)
                           ELSE rows[i][c]]]]

\* Step 2: the snapshot table is taken as it is, the raw table is cleaned
MainPrepare ==
    /\ pc = "prepare"
    /\ LET res == IF "snapshot_time" \in raw_cols
                  THEN PrepareSnapshot(raw_cols, raw_rows)
                  ELSE clean_crypto_data(raw_cols, raw_rows)
       IN  /\ clean_status' = res.status
           /\ clean_error' = res.error
           /\ clean_cols' = res.cols
           /\ clean_rows' = res.rows
           /\ main_out' = Append(main_out, StageLine("prepare", res.status = "ok"))
           /\ pc' = AfterStage(res.status = "ok", "kpi")
    /\ UNCHANGED <<raw_cols, raw_rows, liqVars, cmpVars, kpi_status>>

\* Step 3: kpi_df = calculate_kpis(df_clean); an exception ends main()
MainKpi ==
    /\ pc = "kpi"
    /\ \E risk \in RiskChoices(clean_cols, clean_rows) :
          LET res == calculate_kpis(clean_cols, clean_rows, risk)
          IN  /\ kpi_status' = res.status
              /\ kpi_cols' = IF res.status = "ok" THEN res.cols ELSE kpi_cols
              /\ kpi_rows' = res.rows
              /\ main_out' = Append(main_out, StageLine("kpi", res.status = "ok"))
              /\ pc' = AfterStage(res.status = "ok", "liquidity")
    /\ UNCHANGED <<cleanVars, liqVars, assets, cmp_status, cmp_error, printed,
                   comparison_df>>

LiquidityCols ==
    {"total_volume", "top5_volume", "top5_share", "liquidity_health",
     "concentration_risk", "liquidity_rank"}

\* kpi_df.merge(liquidity_df, on="asset", how="left"): every KPI record stays,
\* with the fields of the concentration record of its asset, missing when the
\* asset has none
MergeLeft(kpi, liq) ==
    [k \in 1..Len(kpi) |->
        LET m == {j \in 1..Len(liq) : liq[j].asset = kpi[k].asset}
        IN  [c \in DOMAIN kpi[k] \cup LiquidityCols |->
                IF c \in DOMAIN kpi[k] THEN kpi[k][c]
                ELSE IF m = {} THEN NaN
                ELSE liq[CHOOSE j \in m : TRUE][c]]]

\* Step 3.5: liquidity_df = calculate_liquidity_concentration(df_clean), merged
\* into kpi_df
MainLiquidity ==
    /\ pc = "liquidity"
    /\ LET res == calculate_liquidity_concentration(clean_cols, clean_rows)
       IN  /\ liq_status' = res.status
           /\ liquidity_df' = res.df
           /\ kpi_cols' = IF res.status = "ok" THEN kpi_cols \cup LiquidityCols
                          ELSE kpi_cols
           /\ kpi_rows' = IF res.status = "ok" THEN MergeLeft(kpi_rows, res.df)
                          ELSE kpi_rows
           /\ main_out' = Append(main_out, StageLine("liquidity", res.status = "ok"))
           /\ pc' = AfterStage(res.status = "ok", "compare")
    /\ df_cols' = clean_cols
    /\ df_rows' = clean_rows
    /\ UNCHANGED <<cleanVars, assets, cmp_status, cmp_error, printed, comparison_df,
                   kpi_status>>

\* Step 4: compare_assets(kpi_df, assets=kpi_df["asset"].tolist()[:5]), then the
\* final message
MainCompare ==
    /\ pc = "compare"
    /\ LET arg == [kind |-> "list",
                   items |-> HeadN([i \in 1..Len(kpi_rows) |-> kpi_rows[i].asset],
                                   MaxCompare)]
           res == compare_assets(kpi_cols, kpi_rows, arg)
           after == AfterStage(res.status = "ok", "done")
       IN  /\ assets' = arg
           /\ cmp_status' = res.status
           /\ cmp_error' = res.error
           /\ printed' = res.printed
           /\ comparison_df' = res.df
           /\ pc' = after
           /\ main_out' = Append(main_out, StageLine("compare", res.status = "ok"))
                              \o (IF after = "done"
                                  THEN <<StageLine("complete", TRUE)>> ELSE <<>>)
    /\ UNCHANGED <<cleanVars, liqVars, kpi_cols, kpi_rows, kpi_status>>

MainNext ==
    \/ MainAddRow \/ MainLoad \/ MainLoadFails \/ MainPrepare
    \/ MainKpi \/ MainLiquidity \/ MainCompare

SpecMain == MainInit /\ [][MainNext]_vars

---------------------------------------------------------------------------
(* What the scorer is expected to return, stated from the input table      *)
(* without going through the scorer's own steps.                           *)

\* rows of df_rows that belong to asset a and carry a volume
NonMissing(a) ==
    {i \in 1..Len(df_rows) : df_rows[i].asset = a /\ ~IsNa(df_rows[i].volume)}

InputAssets == {df_rows[i].asset : i \in 1..Len(df_rows)}

RECURSIVE VolumeSum(_)
VolumeSum(S) ==
    IF S = {} THEN 0
    ELSE LET i == CHOOSE j \in S : TRUE
         IN  Val(df_rows[i].volume) + VolumeSum(S \ {i})

\* the sum of the k largest volumes among the rows S: take a largest one, k times
RECURSIVE LargestSum(_, _)
LargestSum(S, k) ==
    IF S = {} \/ k = 0 THEN 0
    ELSE LET i == CHOOSE j \in S :
                     \A m \in S : Val(df_rows[m].volume) <= Val(df_rows[j].volume)
         IN  Val(df_rows[i].volume) + LargestSum(S \ {i}, k - 1)

\* r (a count of units) is n / d rounded to the nearest unit, d > 0
Nearest(r, n, d) ==
    /\ 2 * (r * d - n) <= d
    /\ 2 * (n - r * d) <= d

LiqReturned == pc = "done" /\ liq_status = "ok"

Emitted(a) == CHOOSE r \in Range(liquidity_df) : r.asset = a

\* C1 as the claim states it: total_volume is exactly the sum of the asset's
\* non-missing volumes, top5_volume exactly the sum of its min(5, n) largest, and
\* top5_share exactly top5_volume / total_volume when total_volume > 0, else null.
C1_ExactSums ==
    LiqReturned =>
        \A a \in InputAssets :
            NonMissing(a) # {} =>
                LET r == Emitted(a)
                    total == VolumeSum(NonMissing(a))
                    top5 == LargestSum(NonMissing(a), 5)
                IN  /\ r.total_volume = Num(total \div 10) /\ total % 10 = 0
                    /\ r.top5_volume = Num(top5 \div 10) /\ top5 % 10 = 0
                    /\ IF total > 0
                       THEN /\ ~IsNa(r.top5_share)
                            /\ Val(r.top5_share) * total = top5 * 10000
                       ELSE IsNa(r.top5_share)

\* C1 (amended): for every asset group with at least one non-missing volume the
\* emitted total_volume is the sum of the non-missing volumes rounded to 2
\* decimals, top5_volume is the sum of the min(5, n) largest rounded to 2 decimals,
\* and top5_share is the unrounded top5 / total rounded to 4 decimals when the
\* total is > 0 and null otherwise.
C1_RoundedSums ==
    LiqReturned =>
        \A a \in InputAssets :
            NonMissing(a) # {} =>
                LET r == Emitted(a)
                    total == VolumeSum(NonMissing(a))
                    top5 == LargestSum(NonMissing(a), 5)
                IN  /\ ~IsNa(r.total_volume) /\ Nearest(Val(r.total_volume), total, 10)
                    /\ ~IsNa(r.top5_volume) /\ Nearest(Val(r.top5_volume), top5, 10)
                    /\ IF total > 0
                       THEN /\ ~IsNa(r.top5_share)
                            /\ Nearest(Val(r.top5_share), top5 * 10000, total)
                       ELSE IsNa(r.top5_share)

\* C1 witness: volumes [10, 20, 30, 5, 5, 5, 5] in that order give top5_volume 70,
\* total_volume 80 and top5_share 0.875.
C1_Witness ==
    /\ LiqReturned
    /\ [i \in 1..Len(df_rows) |-> df_rows[i].volume]
         = <<Num(10000), Num(20000), Num(30000), Num(5000), Num(5000), Num(5000),
             Num(5000)>>
    /\ Emitted("BTC").top5_volume = Num(7000)
    /\ Emitted("BTC").total_volume = Num(8000)
    /\ Emitted("BTC").top5_share = Num(8750)

\* C3 as the claim states it, on the emitted row: Unknown exactly when top5_share
\* is null, High exactly when it is > 0.60, Medium exactly when it is within
\* [0.40, 0.60], Low exactly when it is < 0.40.
C3_EmittedBuckets ==
    LiqReturned =>
        \A i \in 1..Len(liquidity_df) :
            LET r == liquidity_df[i]
            IN  /\ (r.concentration_risk = "Unknown") <=> IsNa(r.top5_share)
                /\ ~IsNa(r.top5_share) =>
                     /\ (r.concentration_risk = "High") <=> Val(r.top5_share) > 6000
                     /\ (r.concentration_risk = "Medium") <=>
                            (Val(r.top5_share) >= 4000 /\ Val(r.top5_share) <= 6000)
                     /\ (r.concentration_risk = "Low") <=> Val(r.top5_share) < 4000

\* C3 (amended): concentration_risk is Unknown exactly when top5_share is null;
\* otherwise it is the bucket of the unrounded quotient top5 / total (High when
\* > 0.60, Medium within [0.40, 0.60], Low when < 0.40), so that the emitted,
\* rounded top5_share is >= 0.60 for High, within [0.40, 0.60] for Medium and
\* <= 0.40 for Low.
C3_UnroundedBuckets ==
    LiqReturned =>
        \A a \in InputAssets :
            LET r == Emitted(a)
                total == VolumeSum(NonMissing(a))
                top5 == LargestSum(NonMissing(a), 5)
            IN  /\ (r.concentration_risk = "Unknown") <=> IsNa(r.top5_share)
                /\ r.concentration_risk \in {"Unknown", "High", "Medium", "Low"}
                /\ ~IsNa(r.top5_share) =>
                     /\ (r.concentration_risk = "High") <=> 10 * top5 > 6 * total
                     /\ (r.concentration_risk = "Medium") <=>
                            (10 * top5 >= 4 * total /\ 10 * top5 <= 6 * total)
                     /\ (r.concentration_risk = "Low") <=> 10 * top5 < 4 * total
                     /\ r.concentration_risk = "High" => Val(r.top5_share) >= 6000
                     /\ r.concentration_risk = "Medium" =>
                            (Val(r.top5_share) >= 4000 /\ Val(r.top5_share) <= 6000)
                     /\ r.concentration_risk = "Low" => Val(r.top5_share) <= 4000

\* C3 witness: a row emitted with top5_share 0.6000 and risk High (the quotient
\* is just above 0.60 and rounds down to it).
C3_Witness ==
    /\ LiqReturned
    /\ \E i \in 1..Len(liquidity_df) :
          /\ liquidity_df[i].top5_share = Num(6000)
          /\ liquidity_df[i].concentration_risk = "High"

\* C4: liquidity_rank is a dense rank by liquidity_health descending: the ranks of
\* the rows with a health are exactly 1..k for k distinct health values, equal
\* health means equal rank, the next lower distinct health has the previous rank
\* + 1, and a row has no rank exactly when it has no health.
C4_DenseRank ==
    LiqReturned =>
        LET ranked == {i \in 1..Len(liquidity_df) : ~IsNa(liquidity_df[i].liquidity_health)}
            H(i) == Val(liquidity_df[i].liquidity_health)
            R(i) == Val(liquidity_df[i].liquidity_rank)
            distinct == {H(i) : i \in ranked}
        IN  /\ \A i \in 1..Len(liquidity_df) :
                  IsNa(liquidity_df[i].liquidity_rank) <=> i \notin ranked
            /\ {R(i) : i \in ranked} = 1..Cardinality(distinct)
            /\ \A i, j \in ranked :
                  /\ H(i) = H(j) <=> R(i) = R(j)
                  /\ H(i) > H(j) <=> R(i) < R(j)
                  /\ (H(j) < H(i) /\ ~\E m \in ranked : H(j) < H(m) /\ H(m) < H(i))
                        => R(j) = R(i) + 1

\* C4 witness: two assets tied at rank 1 and a third, less healthy one at rank 2.
C4_Witness ==
    /\ LiqReturned
    /\ Len(liquidity_df) = 3
    /\ \E i, j, m \in 1..3 :
          /\ i # j
          /\ liquidity_df[i].liquidity_rank = Num(1)
          /\ liquidity_df[j].liquidity_rank = Num(1)
          /\ liquidity_df[m].liquidity_rank = Num(2)

\* C5: a degenerate group does not make the scorer raise; an asset whose volumes
\* are all missing gets a row of nulls with risk Unknown, an asset whose total
\* volume is 0 gets null top5_share and liquidity_health with risk Unknown, every
\* other asset gets a fully computed row, and there is one row per distinct asset.
C5_DegenerateGroups ==
    (pc = "done" /\ df_rows # <<>>) =>
        /\ liq_status = "ok"
        /\ Len(liquidity_df) = Cardinality(InputAssets)
        /\ {liquidity_df[i].asset : i \in 1..Len(liquidity_df)} = InputAssets
        /\ \A a \in InputAssets :
              LET r == Emitted(a)
                  total == VolumeSum(NonMissing(a))
              IN  /\ NonMissing(a) = {} =>
                         /\ IsNa(r.total_volume) /\ IsNa(r.top5_volume)
                         /\ IsNa(r.top5_share) /\ IsNa(r.liquidity_health)
                         /\ r.concentration_risk = "Unknown"
                  /\ (NonMissing(a) # {} /\ total = 0) =>
                         /\ IsNa(r.top5_share) /\ IsNa(r.liquidity_health)
                         /\ r.concentration_risk = "Unknown"
                  /\ (NonMissing(a) # {} /\ total > 0) =>
                         /\ ~IsNa(r.total_volume) /\ ~IsNa(r.top5_volume)
                         /\ ~IsNa(r.top5_share) /\ ~IsNa(r.liquidity_health)
                         /\ r.concentration_risk # "Unknown"
                         /\ ~IsNa(r.liquidity_rank)

\* C5 witness: one table with an all-missing asset, a zero-volume asset and an
\* asset with volume, each with its own row.
C5_Witness ==
    /\ LiqReturned
    /\ \E a, b, c \in InputAssets :
          /\ NonMissing(a) = {} /\ Emitted(a).concentration_risk = "Unknown"
          /\ NonMissing(b) # {} /\ VolumeSum(NonMissing(b)) = 0
          /\ IsNa(Emitted(b).top5_share)
          /\ NonMissing(c) # {} /\ VolumeSum(NonMissing(c)) > 0
          /\ ~IsNa(Emitted(c).top5_share)

---------------------------------------------------------------------------
(* What compare_assets is expected to do, stated from its arguments.       *)

CmpReturned == pc = "done" /\ cmp_status = "ok"

TableAssets == {kpi_rows[i].asset : i \in 1..Len(kpi_rows)}

ComparedAssets == {comparison_df[i].Asset : i \in 1..Len(comparison_df)}

\* the first five entries of the list passed
FirstFive == [i \in 1..(IF Len(assets.items) < 5 THEN Len(assets.items) ELSE 5) |->
                 assets.items[i]]

\* the assets a selection would leave: all of the table, or the listed ones found
ValidSelection ==
    IF assets.kind = "none" THEN TableAssets ELSE Range(FirstFive) \cap TableAssets

\* C6 as the claim states it: a normal return holds at least 2 distinct assets
\* (at most 5 for an explicit list), and a selection that leaves fewer than 2
\* valid distinct assets ends in a validation error instead of a return.
C6_AtLeastTwoOrError ==
    (pc = "done" /\ cmp_status # "idle") =>
        /\ cmp_status = "ok" =>
              /\ Cardinality(ComparedAssets) >= 2
              /\ assets.kind = "list" => Cardinality(ComparedAssets) <= 5
        /\ Cardinality(ValidSelection) < 2 => cmp_status = "ValueError"

\* C7: with an explicit list of at least 2 entries, the list is first cut to its
\* first 5 entries (warning), then the entries absent from the data are dropped
\* (warning, no error), then fewer than 2 remaining entries end the call with a
\* validation error naming the available assets; the result holds exactly the
\* entries of the first five that are in the data, so an entry at position 6 or
\* later is never selected on its own account.
C7_TruncateThenFilter ==
    (pc = "done" /\ cmp_status # "idle" /\ assets.kind = "list"
        /\ Len(assets.items) >= 2) =>
        LET remain == {i \in 1..Len(FirstFive) : FirstFive[i] \in TableAssets}
            absent == {i \in 1..Len(FirstFive) : FirstFive[i] \notin TableAssets}
            cutW == IF Len(assets.items) > 5
                    THEN <<"Warning: More than 5 assets provided, using first 5">>
                    ELSE <<>>
            dropW == IF absent # {}
                     THEN <<"Warning: assets not found and will be skipped">>
                     ELSE <<>>
        IN  /\ [i \in 1..Len(printed) |-> printed[i][1]] = cutW \o dropW
            /\ absent # {} =>
                  Range(printed[Len(printed)][2]) = {FirstFive[i] : i \in absent}
            /\ Cardinality(remain) < 2 =>
                  /\ cmp_status = "ValueError"
                  /\ cmp_error[1] = "Not enough valid assets to compare"
                  /\ cmp_error[2] = Cardinality(remain)
                  /\ Range(cmp_error[3]) = TableAssets
                  /\ comparison_df = <<>>
            /\ Cardinality(remain) >= 2 =>
                  /\ cmp_error # <<>> =>
                        cmp_error[1] # "Not enough valid assets to compare"
                  /\ cmp_status = "ok" =>
                        ComparedAssets = {FirstFive[i] : i \in remain}

\* C7 witness: a list of six whose first five hold an absent entry and whose sixth
\* entry is in the data but not among the first five: both warnings are printed,
\* the call returns, and the sixth entry is not in the result.
C7_Witness ==
    /\ CmpReturned
    /\ assets.kind = "list"
    /\ Len(assets.items) = 6
    /\ Len(printed) = 2
    /\ assets.items[6] \in TableAssets
    /\ assets.items[6] \notin ComparedAssets

\* C8 as the claim states it: with no explicit list, every asset of the KPI table
\* is in the result, however many there are.
C8_AllAssetsSelected ==
    (CmpReturned /\ assets.kind = "none") =>
        /\ ComparedAssets = TableAssets
        /\ Len(comparison_df) = Len(kpi_rows)

\* null or negative inputs count as 0
Clamp0(x) == IF IsNa(x) THEN 0 ELSE IF Val(x) < 0 THEN 0 ELSE Val(x)

\* ten times the weighted composite score, in ten-thousandths
Score(r) ==
    IF "top5_share" \in DOMAIN r
    THEN 4 * Clamp0(r.momentum) + 2 * Clamp0(r.liquidity_proxy)
           + 3 * (1000000 - Clamp0(r.downside_risk))
           + (1000000 - 100 * Clamp0(r.top5_share))
    ELSE 4 * Clamp0(r.momentum) + 3 * Clamp0(r.liquidity_proxy)
           + 3 * (1000000 - Clamp0(r.downside_risk))

InputPos(a) == CHOOSE i \in 1..Len(kpi_rows) : kpi_rows[i].asset = a

\* C9 as the claim states it: the returned rows are in descending order of the
\* weighted composite score, rows of equal score keep their input order, and each
\* row carries Rank, its 1-based position.
C9_RankedByScore ==
    CmpReturned =>
        /\ \A i, j \in 1..Len(comparison_df) :
              i < j =>
                 LET a == kpi_rows[InputPos(comparison_df[i].Asset)]
                     b == kpi_rows[InputPos(comparison_df[j].Asset)]
                 IN  /\ Score(a) >= Score(b)
                     /\ Score(a) = Score(b) =>
                           InputPos(comparison_df[i].Asset) < InputPos(comparison_df[j].Asset)
        /\ \A i \in 1..Len(comparison_df) :
              /\ "Rank" \in DOMAIN comparison_df[i]
              /\ comparison_df[i]["Rank"] = i

---------------------------------------------------------------------------
(* Required columns.                                                       *)

\* the table passed to clean_crypto_data has a column spelled n, case and
\* surrounding blanks aside
RawHas(n) == \E c \in raw_cols : Normalize(c) = n

\* C10 as the claim states it: each stage rejects, with a validation error and no
\* output, a table that lacks one of its required columns: {asset, volume} for
\* the scorer, the five KPI columns for compare_assets, and {asset, timestamp,
\* price, volume} for clean_crypto_data.
C10_RejectsMissingColumn ==
    pc = "done" =>
        /\ (liq_status # "idle" /\ ~({"asset", "volume"} \subseteq df_cols)) =>
              (liq_status = "ValueError" /\ liquidity_df = <<>>)
        /\ (cmp_status # "idle" /\ ~(KpiCols \subseteq kpi_cols)) =>
              (cmp_status = "ValueError" /\ comparison_df = <<>>)
        /\ (clean_status # "idle"
              /\ \E n \in {"asset", "timestamp", "price", "volume"} : ~RawHas(n)) =>
              (clean_status = "ValueError" /\ clean_rows = <<>>)

\* C10 (amended): each stage rejects, with a validation error raised before any
\* row is processed and with no output, exactly the tables that lack one of its
\* required columns; for clean_crypto_data the columns are taken after its own
\* normalisation of the names, under which a symbol column stands for asset when
\* the table has no asset column.
C10_RejectsMissingNormalised ==
    pc = "done" =>
        /\ liq_status # "idle" =>
              /\ liq_status = "ValueError" <=> ~({"asset", "volume"} \subseteq df_cols)
              /\ liq_status = "ValueError" => liquidity_df = <<>>
        /\ cmp_status # "idle" =>
              /\ ~(KpiCols \subseteq kpi_cols) <=>
                    (cmp_error # <<>>
                        /\ cmp_error[1] = "Missing required columns in KPI DataFrame")
              /\ ~(KpiCols \subseteq kpi_cols) =>
                    /\ cmp_status = "ValueError"
                    /\ Range(cmp_error[2]) = KpiCols \ kpi_cols
                    /\ comparison_df = <<>> /\ printed = <<>>
        /\ clean_status # "idle" =>
              LET lacks(n) == ~RawHas(n) /\ ~(n = "asset" /\ RawHas("symbol"))
                  lacking == {n \in {"asset", "timestamp", "price", "volume"} : lacks(n)}
              IN  /\ clean_status = "ValueError" <=> lacking # {}
                  /\ clean_status = "ValueError" =>
                        /\ clean_error[1] = "Missing required column"
                        /\ clean_error[2] \in lacking
                        /\ clean_rows = <<>> /\ clean_cols = {}

\* C10 witness: clean_crypto_data called on a table with rows that has Symbol for
\* asset but no price column, rejected for the missing price.
C10_Witness ==
    /\ pc = "done"
    /\ raw_rows # <<>>
    /\ "Symbol" \in raw_cols /\ " Asset " \notin raw_cols /\ "price" \notin raw_cols
    /\ clean_status = "ValueError"
    /\ clean_error = <<"Missing required column", "price">>
    /\ clean_rows = <<>>

---------------------------------------------------------------------------
(* The scorer inside the pipeline.                                         *)

\* C2 as the claim states it: for every table that reaches the scorer through
\* main(), cleaned raw rows or snapshot rows taken as they are, every emitted row
\* has top5_share null or within [0, 1] and liquidity_health null or within
\* [0, 100].
C2_ShareAndHealthInRange ==
    (pc = "compare" /\ liq_status = "ok") =>
        \A i \in 1..Len(liquidity_df) :
            LET r == liquidity_df[i]
            IN  /\ IsNa(r.top5_share)
                   \/ (0 <= Val(r.top5_share) /\ Val(r.top5_share) <= 10000)
                /\ IsNa(r.liquidity_health)
                   \/ (0 <= Val(r.liquidity_health) /\ Val(r.liquidity_health) <= 10000)

---------------------------------------------------------------------------
(* What the KPI stage is expected to return, stated from the table it was  *)
(* given without going through the stage's own steps.                      *)

KpiReturned == pc = "done" /\ kpi_status = "ok"

\* the observations of asset a in the table handed to the KPI stage
Observations(a) == {i \in 1..Len(clean_rows) : clean_rows[i].asset = a}

Earliest(a) ==
    {i \in Observations(a) :
        \A j \in Observations(a) :
            Val(clean_rows[i].timestamp) <= Val(clean_rows[j].timestamp)}

Latest(a) ==
    {i \in Observations(a) :
        \A j \in Observations(a) :
            Val(clean_rows[j].timestamp) <= Val(clean_rows[i].timestamp)}

\* floor and remainder of (last - first) * 10^6 / first, for first > 0
PctFloor(first, last) ==
    LET a == (last - first) * 1000
    IN  (a \div first) * 1000 + ((a % first) * 1000) \div first

PctRest(first, last) ==
    LET a == (last - first) * 1000
    IN  ((a % first) * 1000) % first

\* m ten-thousandths is (last - first) / first * 100: exactly that number, or
\* the count of ten-thousandths nearest to it
IsPct(m, first, last, exact) ==
    IF exact
    THEN PctRest(first, last) = 0 /\ m = PctFloor(first, last)
    ELSE \/ m = PctFloor(first, last) /\ 2 * PctRest(first, last) <= first
         \/ m = PctFloor(first, last) + 1 /\ 2 * PctRest(first, last) >= first

\* the KPI value x is the first-vs-last change of n observations
IsChange(x, n, first, last, exact) ==
    IF n < 2 \/ ~(Val(first) > 0)
    THEN IsNa(x)
    ELSE ~IsNa(x) /\ IsPct(Val(x), Val(first), Val(last), exact)

\* every asset of the table has one record, and it carries the first-vs-last
\* changes of the asset's price and volume
FirstVsLastChanges(exact) ==
    /\ Len(kpi_rows) = Cardinality({clean_rows[i].asset : i \in 1..Len(clean_rows)})
    /\ \A i \in 1..Len(clean_rows) :
          \E k \in 1..Len(kpi_rows) : kpi_rows[k].asset = clean_rows[i].asset
    /\ \A k \in 1..Len(kpi_rows) :
          LET a == kpi_rows[k].asset
              n == Cardinality(Observations(a))
          IN  \E f \in Earliest(a), l \in Latest(a) :
                  /\ IsChange(kpi_rows[k].momentum, n,
                              clean_rows[f].price, clean_rows[l].price, exact)
                  /\ IsChange(kpi_rows[k].volume_trend, n,
                              clean_rows[f].volume, clean_rows[l].volume, exact)

\* C11 as stated: for every asset the KPI stage returns momentum =
\* (last_price - first_price) / first_price * 100 and volume_trend =
\* (last_volume - first_volume) / first_volume * 100, first and last being the
\* observations of smallest and largest timestamp whatever the row order;
\* each is null under 2 observations or when the first value is not > 0.
C11_ExactChange ==
    (KpiReturned /\ "timestamp" \in clean_cols) => FirstVsLastChanges(TRUE)

\* C11 amended: the same, each value being the change rounded to 4 decimals.
C11_RoundedChange ==
    (KpiReturned /\ "timestamp" \in clean_cols) => FirstVsLastChanges(FALSE)

\* prices 10, 12, 9 and volumes 100, 200, 50 at times 1, 2, 3, passed in the
\* row order 3, 1, 2, give momentum -10.0 and volume_trend -50.0
C11_Witness ==
    /\ KpiReturned
    /\ clean_rows = <<ObsRow("BTC", Num(3), Num(9000), Num(50000)),
                      ObsRow("BTC", Num(1), Num(10000), Num(100000)),
                      ObsRow("BTC", Num(2), Num(12000), Num(200000))>>
    /\ Len(kpi_rows) = 1
    /\ kpi_rows[1].momentum = Num(-100000)
    /\ kpi_rows[1].volume_trend = Num(-500000)

---------------------------------------------------------------------------
(* The order of the stages of main(), stated on what main() printed and on *)
(* the result each stage left.                                             *)

StageOrder == <<"load", "prepare", "kpi", "liquidity", "compare", "complete">>

\* the stages main() has started, in the order of their lines
Started == [i \in 1..Len(main_out) |-> main_out[i][1]]

Succeeded(stage) == \E i \in 1..Len(main_out) : main_out[i] = <<stage, "ok">>

Failed(stage) == \E i \in 1..Len(main_out) : main_out[i] = <<stage, "error">>

\* the stages before and after the given one
Earlier(stage) ==
    {StageOrder[j] : j \in {n \in 1..Len(StageOrder) :
                               \E m \in (n + 1)..Len(StageOrder) : StageOrder[m] = stage}}

Later(stage) ==
    {StageOrder[j] : j \in {n \in 1..Len(StageOrder) :
                               \E m \in 1..(n - 1) : StageOrder[m] = stage}}

\* what the stage functions left behind agrees with the lines printed
ResultOf(stage) ==
    CASE stage = "prepare" -> clean_status
      [] stage = "kpi" -> kpi_status
      [] stage = "liquidity" -> liq_status
      [] stage = "compare" -> cmp_status
      [] OTHER -> IF Succeeded(stage) THEN "ok" ELSE IF Failed(stage) THEN "error" ELSE "idle"

\* C12: in main() the stages run strictly in the order load, prepare, KPI
\* calculation, liquidity concentration (with its merge into the KPI table),
\* comparison; a stage starts only after every earlier stage has succeeded, a
\* failure in any stage ends the run with no later stage executed, and the
\* final message is printed only when all stages have succeeded.
C12_StagesInOrder ==
    /\ Len(main_out) <= Len(StageOrder)
    /\ Started = SubSeq(StageOrder, 1, Len(main_out))
    /\ \A stage \in Range(StageOrder) :
          /\ (Succeeded(stage) \/ Failed(stage)) <=> ResultOf(stage) # "idle"
          /\ Succeeded(stage) <=> ResultOf(stage) = "ok"
          /\ ResultOf(stage) # "idle" =>
                \A e \in Earlier(stage) : Succeeded(e) /\ ResultOf(e) = "ok"
          /\ Failed(stage) =>
                /\ pc = "failed"
                /\ \A l \in Later(stage) : ResultOf(l) = "idle"
    /\ Succeeded("liquidity") => LiquidityCols \subseteq kpi_cols
    /\ ResultOf("compare") # "idle" => LiquidityCols \subseteq kpi_cols
    /\ Succeeded("complete") <=> pc = "done"

\* a run in which every stage succeeded and the final message was printed
C12_Witness ==
    /\ pc = "done"
    /\ main_out = [i \in 1..6 |-> <<StageOrder[i], "ok">>]
    /\ cmp_status = "ok"
    /\ Len(comparison_df) = 2

=============================================================================
